---- MODULE Spec2Model ----
(***************************************************************************)
(* Model of src/app.py: the multi-user Docker log streamer.                *)
(*                                                                         *)
(* State: the two module-level dictionaries (user_sessions,                *)
(* active_streams), the session dictionaries they point to, one record per *)
(* stream thread launched by start_logs (its closure variables, its        *)
(* stop_event, its position in stream_logs / stream_logs_generator and the *)
(* generator's buffer), and what socketio.emit has sent to each room.      *)
(*                                                                         *)
(* Socket.IO handlers are one action each.  A stream thread is one action  *)
(* per step between two accesses of shared state (stop_event,              *)
(* active_streams, the session dictionary, the network, emit), so that the *)
(* handlers interleave with the threads as they do under the threading     *)
(* async mode.  For the handlers that race with each other (start_logs,    *)
(* handle_stop_logs, on_disconnect) there is a second set of actions, one  *)
(* per statement that reads or writes shared state (ConcNext, StopNext).   *)
(*                                                                         *)
(* Bytes are integers 0..255.  Text is modelled for ASCII bytes and the    *)
(* byte 255, which is valid in no UTF-8 sequence.                          *)
(***************************************************************************)
EXTENDS Integers, Sequences, FiniteSets, TLC

\* ------------------------------------------------------------------ bounds

\* Spec (every viewer): handler invocations, stream threads launched, source
\* bytes delivered to all stream threads together
MaxCalls == 3
MaxStreams == 2
MaxBytes == 2
\* ViewersSpec (every viewer; the source sends whole lines)
ViewersCalls == 3
ViewersStreams == 1
ViewersBytes == 2
\* KeySpec (one viewer, one stream key started over and over)
KeyCalls == 4
KeyStreams == 3
KeyBytes == 2
\* StreamSpec (one viewer and the bytes of its streams; every request may
\* start a stream)
StreamCalls == 2
StreamBytes == 5
\* FairSpec (one viewer, one stream, scheduled threads)
FairCalls == 3
FairStreams == 1
FairBytes == 2

\* DemuxSpec (one stream cut in every way): handler invocations, and the
\* length up to which every stream of plain bytes is sent
DemuxCalls == 3
DemuxLen == 3

\* ConcSpec (one viewer, handlers running concurrently)
ConcCalls == 3
ConcStreams == 2
ConcBytes == 2

\* ColonSpec (a viewer whose connection id holds a colon)
ColonCalls == 3
ColonStreams == 1
ColonBytes == 2

\* RejectSpec (one viewer, requests that are turned down)
RejectCalls == 3
RejectStreams == 2
RejectBytes == 2

\* StopSpec (a stream is running, its viewer's stop requests handled
\* concurrently)
StopCalls == 4
StopBytes == 2
\* bytes in one chunk handed over by iter_content
MaxChunk == 2

\* ------------------------------------------------------- program constants

LF == 10
CR == 13
\* len(payload) >= 8 and payload[8:]
HeaderLen == 8
\* first_byte in (1, 2)
HeaderTags == {1, 2}

\* ------------------------------------------------------------ input domains

\* connection ids handed out by the transport (request.sid): any string
Sids == {<<"a">>, <<"b">>, <<"a", ":", "b">>}
\* those of one letter
LetterSids == {<<"a">>, <<"b">>}
\* container ids a viewer may send; the empty one is the missing container_id
Cids == {<<"x">>}
NoContainer == <<>>
\* data['url'] of connect_docker; NoUrl is a request without the key
Urls == {"u1"}
NoUrl == "(missing)"
None == "None"
\* bytes the log source sends
SourceBytes == {97, LF}

VARIABLES
    user_sessions,   \* sid -> index into sessions, 0 when the sid has no entry
    sessions,        \* the session dictionaries ever created
    active_streams,  \* stream_key -> index into threads
    threads,         \* the stream threads ever launched
    emitted,         \* room (sid) -> the events socketio.emit sent to it
    closed,          \* sids whose transport connection has gone (on_disconnect ran)
    calls,           \* handler invocations so far
    limits,          \* what bounds the behaviour; never changes
    running          \* the handler invocations that run statement by statement

vars == <<user_sessions, sessions, active_streams, threads, emitted, closed, calls,
          limits, running>>

\* ---------------------------------------------------------- byte sequences

RECURSIVE SeqsUpTo(_, _)
SeqsUpTo(S, n) ==
    IF n = 0 THEN {<<>>}
    ELSE LET shorter == SeqsUpTo(S, n - 1)
         IN  shorter \cup {Append(q, b) : q \in shorter, b \in S}

\* what iter_content may hand over: any non-empty run of source bytes
Chunks == SeqsUpTo(SourceBytes, MaxChunk) \ {<<>>}

StartsWith(k, p) == Len(k) >= Len(p) /\ SubSeq(k, 1, Len(p)) = p

IsPrefix(p, q) == Len(p) <= Len(q) /\ SubSeq(q, 1, Len(p)) = p

\* ------------------------------------------------ stream_logs_generator

\* b'\n' in buffer: position of the first line feed, 0 when there is none
RECURSIVE IndexOfLF(_, _)
IndexOfLF(buf, i) ==
    IF i > Len(buf) THEN 0
    ELSE IF buf[i] = LF THEN i
    ELSE IndexOfLF(buf, i + 1)

\* payload = line; strip 8 bytes when len >= 8 and the first byte is 1 or 2
StripHeader(line) ==
    IF Len(line) >= HeaderLen /\ line[1] \in HeaderTags
    THEN SubSeq(line, HeaderLen + 1, Len(line))
    ELSE line

\* payload.decode('utf-8', errors='ignore') on ASCII bytes and 0xFF
Decode(payload) == SelectSeq(payload, LAMBDA b : b < 128)

\* str.isspace of Python for the ASCII range
IsSpace(b) == b \in {9, 10, 11, 12, 13, 28, 29, 30, 31, 32}

RECURSIVE LStrip(_)
LStrip(s) == IF s # <<>> /\ IsSpace(s[1]) THEN LStrip(Tail(s)) ELSE s

RECURSIVE RStrip(_)
RStrip(s) ==
    IF s # <<>> /\ IsSpace(s[Len(s)]) THEN RStrip(SubSeq(s, 1, Len(s) - 1)) ELSE s

RECURSIVE RStripCR(_)
RStripCR(s) ==
    IF s # <<>> /\ s[Len(s)] = CR THEN RStripCR(SubSeq(s, 1, Len(s) - 1)) ELSE s

\* decoded_line = payload.decode(...).rstrip('\r'); cleaned_line = decoded_line.strip()
CleanLine(line) == LStrip(RStrip(RStripCR(Decode(StripHeader(line)))))

\* a generator that forgets the rest of the last chunk: buffer = chunk
ReplaceBuffer(buffer, chunk) == chunk

\* buffer += chunk
AppendChunk(buffer, chunk) == buffer \o chunk

\* a generator that takes the end of the buffer for the end of a line
RECURSIVE NextYieldFlushing(_)
NextYieldFlushing(buf) ==
    LET i == IndexOfLF(buf, 1)
        end == IF i = 0 THEN Len(buf) + 1 ELSE i
        cleaned == CleanLine(SubSeq(buf, 1, end - 1))
        rest == SubSeq(buf, end + 1, Len(buf))
    IN  IF buf = <<>> THEN [yield |-> FALSE, line |-> <<>>, buffer |-> <<>>]
        ELSE IF cleaned # <<>>
        THEN [yield |-> TRUE, line |-> cleaned, buffer |-> rest]
        ELSE NextYieldFlushing(rest)

\* a generator that starts from an empty buffer at every chunk: the bytes
\* left behind the last line feed are dropped
RECURSIVE NextYieldForgetting(_)
NextYieldForgetting(buf) ==
    LET i == IndexOfLF(buf, 1) IN
    IF i = 0 THEN [yield |-> FALSE, line |-> <<>>, buffer |-> <<>>]
    ELSE LET cleaned == CleanLine(SubSeq(buf, 1, i - 1))
             rest == SubSeq(buf, i + 1, Len(buf))
         IN  IF cleaned # <<>>
             THEN [yield |-> TRUE, line |-> cleaned, buffer |-> rest]
             ELSE NextYieldForgetting(rest)

\* The while loop of the generator, run until it yields or leaves the loop:
\* [yield |-> TRUE, line, buffer] at the next yield, [yield |-> FALSE, buffer]
\* when no line feed is left in the buffer.
RECURSIVE NextYield(_)
NextYield(buf) ==
    LET i == IndexOfLF(buf, 1) IN
    IF i = 0 THEN [yield |-> FALSE, line |-> <<>>, buffer |-> buf]
    ELSE LET line == SubSeq(buf, 1, i - 1)
             rest == SubSeq(buf, i + 1, Len(buf))
             cleaned == CleanLine(line)
         IN  IF line # <<>> /\ cleaned # <<>>
             THEN [yield |-> TRUE, line |-> cleaned, buffer |-> rest]
             ELSE NextYield(rest)

\* ------------------------------------------------------------------ events

\* An event as socketio.emit sends it.  message is the 'message' of the payload
\* when it is a fixed text, text the decoded log line of a 'stdout' log event.
\* src and upto are history: the stream thread that emitted it (0: a handler)
\* and, for the event of stop_logs, how many stream threads had been launched.
Event(name, stream, message, text, src, upto) ==
    [event |-> name, stream |-> stream, message |-> message, text |-> text,
     src |-> src, upto |-> upto]

ConnectedEvent(u) == Event("log", "system", "Connected to container logs...", <<>>, u, 0)
LineEvent(u, line) == Event("log", "stdout", "", line, u, 0)
StreamErrorEvent(u) == Event("error", "", "Log stream error", <<>>, u, 0)
EndedEvent(u) == Event("log", "system", "Log stream ended", <<>>, u, 0)
DisconnectedEvent(n) == Event("log", "system", "Disconnected from logs", <<>>, 0, n)
HandlerEvent(name, message) == Event(name, "", message, <<>>, 0, 0)

\* socketio.emit(..., room=room)
Emit(em, room, ev) == [em EXCEPT ![room] = Append(@, ev)]

\* an emit that does not look at the thread's own sid
RoomOfFirstViewer(t) == <<"a">>

\* room=sid inside stream_logs: the sid of the start_logs request that
\* launched the thread
RoomOf(t) == t.sid

\* ---------------------------------------------------------------- sessions

NewSession == [docker_client |-> None, docker_url |-> None, connected |-> FALSE]

\* get_user_session(sid): <<sessions, user_sessions>> after the call
SessionsAfterGet(sid) ==
    IF user_sessions[sid] # 0 THEN <<sessions, user_sessions>>
    ELSE <<Append(sessions, NewSession),
           [user_sessions EXCEPT ![sid] = Len(sessions) + 1]>>

\* --------------------------------------------------------------- registry

\* stream_key = f"{sid}:{container_id}"
StreamKey(sid, container_id) == sid \o <<":">> \o container_id

\* dict without key k
Without(d, k) == [x \in (DOMAIN d) \ {k} |-> d[x]]

\* dict with d[k] = v
With(d, k, v) == [x \in (DOMAIN d) \cup {k} |-> IF x = k THEN v ELSE d[x]]

\* stop_stream(stream_key) on registry reg and threads thr:
\* <<active_streams, threads>> after the call
StopStream(reg, thr, stream_key) ==
    IF stream_key \notin DOMAIN reg THEN <<reg, thr>>
    ELSE <<Without(reg, stream_key),
           [thr EXCEPT ![reg[stream_key]].stop_event = TRUE]>>

\* keys = [k for k in list(active_streams.keys()) if k.startswith(f"{sid}:")]
UserKeys(reg, sid) == {k \in DOMAIN reg : StartsWith(k, sid \o <<":">>)}

\* for k in keys: stop_stream(k)
RECURSIVE StopEach(_, _, _)
StopEach(reg, thr, keys) ==
    IF keys = {} THEN <<reg, thr>>
    ELSE LET k == CHOOSE x \in keys : TRUE
             r == StopStream(reg, thr, k)
         IN  StopEach(r[1], r[2], keys \ {k})

\* stop_user_streams(sid): <<active_streams, threads>> after the call
StopUserStreams(reg, thr, sid) == StopEach(reg, thr, UserKeys(reg, sid))

\* ------------------------------------------------------------------- init

\* active_streams = {}
EmptyDict == [k \in {} |-> 0]

\* the state after the module is loaded, for a behaviour of the given viewers
\* with at most maxCalls requests, maxStreams stream threads and maxBytes
\* source bytes, which arrive in chunks of the given set
InitWith(viewers, maxCalls, maxStreams, maxBytes, chunks) ==
    /\ user_sessions = [s \in Sids |-> 0]
    /\ sessions = <<>>
    /\ active_streams = EmptyDict
    /\ threads = <<>>
    /\ emitted = [s \in Sids |-> <<>>]
    /\ closed = {}
    /\ calls = 0
    /\ limits = [viewers |-> viewers, calls |-> maxCalls, streams |-> maxStreams,
                 bytes |-> maxBytes, chunks |-> chunks]
    /\ running = <<>>

Init == InitWith(LetterSids, MaxCalls, MaxStreams, MaxBytes, Chunks)

\* a request of a connected viewer is being handled
Handles(sid) == sid \in limits.viewers /\ sid \notin closed /\ calls < limits.calls

\* ---------------------------------------------------------------- handlers

\* a connect_docker whose 'docker_connect_ready' is emitted at the end of the
\* try block instead of after it
connect_docker_ReadyInTry(sid, url, reachable) ==
    /\ Handles(sid)
    /\ LET got == SessionsAfterGet(sid)
           session == got[2][sid]
           ok == url # NoUrl /\ reachable
       IN  /\ sessions' =
                 IF ok
                 THEN [got[1] EXCEPT ![session] =
                          [docker_client |-> url, docker_url |-> url, connected |-> TRUE]]
                 ELSE got[1]
           /\ user_sessions' = got[2]
           /\ emitted' =
                 IF ok
                 THEN Emit(Emit(emitted, sid, HandlerEvent("docker_connected", url)),
                           sid, HandlerEvent("docker_connect_ready", ""))
                 ELSE Emit(emitted, sid,
                           HandlerEvent("error", "Docker connection failed"))
    /\ calls' = calls + 1
    /\ UNCHANGED <<active_streams, threads, closed, limits, running>>

\* connect_docker(data): url is data['url'] (NoUrl: the key is missing),
\* reachable is whether list_containers gets an answer from the endpoint
connect_docker(sid, url, reachable) ==
    /\ Handles(sid)
    /\ LET got == SessionsAfterGet(sid)
           session == got[2][sid]
           ok == url # NoUrl /\ reachable
           outcome ==
               IF ok THEN HandlerEvent("docker_connected", url)
               ELSE IF url = NoUrl
                    THEN HandlerEvent("error", "Docker connection failed: 'url'")
                    ELSE HandlerEvent("error",
                             "Docker connection failed: Failed to connect to Docker API")
       IN  /\ sessions' =
                 IF ok
                 THEN [got[1] EXCEPT ![session] =
                          [docker_client |-> url, docker_url |-> url, connected |-> TRUE]]
                 ELSE got[1]
           /\ user_sessions' = got[2]
           /\ emitted' = Emit(Emit(emitted, sid, outcome), sid,
                              HandlerEvent("docker_connect_ready", ""))
    /\ calls' = calls + 1
    /\ UNCHANGED <<active_streams, threads, closed, limits, running>>

\* disconnect_docker()
disconnect_docker(sid) ==
    /\ Handles(sid)
    /\ LET got == SessionsAfterGet(sid)
           session == got[2][sid]
           stopped == StopUserStreams(active_streams, threads, sid)
       IN  /\ active_streams' = stopped[1]
           /\ threads' = stopped[2]
           /\ sessions' = [got[1] EXCEPT ![session] = NewSession]
           /\ user_sessions' = got[2]
           /\ emitted' = Emit(emitted, sid, HandlerEvent("docker_disconnected", ""))
    /\ calls' = calls + 1
    /\ UNCHANGED <<closed, limits, running>>

\* the thread start_logs launches, at the start of stream_logs; sent (the
\* source bytes delivered to it) and failed (an exception reached stream_logs)
\* are history
NewThread(sid, container_id, session) ==
    [sid |-> sid, container_id |-> container_id,
     stream_key |-> StreamKey(sid, container_id), session |-> session,
     stop_event |-> FALSE, pc |-> "connect", buffer |-> <<>>, line |-> <<>>,
     sent |-> <<>>, failed |-> FALSE]

\* a start_logs that does not look at the session before it launches
start_logs_Unchecked(sid, container_id) ==
    /\ Handles(sid)
    /\ Len(threads) < limits.streams
    /\ LET got == SessionsAfterGet(sid)
           stream_key == StreamKey(sid, container_id)
       IN  /\ sessions' = got[1]
           /\ user_sessions' = got[2]
           /\ IF container_id = NoContainer
              THEN /\ emitted' = Emit(emitted, sid,
                                      HandlerEvent("error", "No container_id provided"))
                   /\ UNCHANGED <<active_streams, threads>>
              ELSE /\ LET stopped == IF stream_key \in DOMAIN active_streams
                                     THEN StopStream(active_streams, threads, stream_key)
                                     ELSE <<active_streams, threads>>
                      IN  /\ threads' = Append(stopped[2],
                                 NewThread(sid, container_id, got[2][sid]))
                          /\ active_streams' =
                                 With(stopped[1], stream_key, Len(threads) + 1)
                   /\ UNCHANGED emitted
    /\ calls' = calls + 1
    /\ UNCHANGED <<closed, limits, running>>

\* start_logs(data): container_id is data.get('container_id')
start_logs(sid, container_id) ==
    /\ Handles(sid)
    /\ Len(threads) < limits.streams
    /\ LET got == SessionsAfterGet(sid)
           session == got[1][got[2][sid]]
           stream_key == StreamKey(sid, container_id)
       IN  /\ sessions' = got[1]
           /\ user_sessions' = got[2]
           /\ IF container_id = NoContainer
              THEN /\ emitted' = Emit(emitted, sid,
                                      HandlerEvent("error", "No container_id provided"))
                   /\ UNCHANGED <<active_streams, threads>>
              ELSE IF ~session.connected \/ session.docker_client = None
              THEN /\ emitted' = Emit(emitted, sid,
                                      HandlerEvent("error", "Not connected to Docker"))
                   /\ UNCHANGED <<active_streams, threads>>
              ELSE /\ LET stopped == IF stream_key \in DOMAIN active_streams
                                     THEN StopStream(active_streams, threads, stream_key)
                                     ELSE <<active_streams, threads>>
                      IN  /\ threads' = Append(stopped[2],
                                 NewThread(sid, container_id, got[2][sid]))
                          /\ active_streams' =
                                 With(stopped[1], stream_key, Len(threads) + 1)
                   /\ UNCHANGED emitted
    /\ calls' = calls + 1
    /\ UNCHANGED <<closed, limits, running>>

\* handle_stop_logs()
handle_stop_logs(sid) ==
    /\ Handles(sid)
    /\ LET stopped == StopUserStreams(active_streams, threads, sid)
       IN  /\ active_streams' = stopped[1]
           /\ threads' = stopped[2]
    /\ emitted' = Emit(emitted, sid, DisconnectedEvent(Len(threads)))
    /\ calls' = calls + 1
    /\ UNCHANGED <<user_sessions, sessions, closed, limits, running>>

\* on_disconnect(): the transport connection of sid has gone
on_disconnect(sid) ==
    /\ Handles(sid)
    /\ LET stopped == StopUserStreams(active_streams, threads, sid)
       IN  /\ active_streams' = stopped[1]
           /\ threads' = stopped[2]
    /\ user_sessions' = [user_sessions EXCEPT ![sid] = 0]
    /\ closed' = closed \cup {sid}
    /\ calls' = calls + 1
    /\ UNCHANGED <<sessions, emitted, limits, running>>

\* ---------------------------------------------------------- stream threads

Threads == 1..Len(threads)

At(u, where) == u \in Threads /\ threads[u].pc = where

\* source bytes delivered so far, over all threads
RECURSIVE TotalSent(_)
TotalSent(u) == IF u = 0 THEN 0 ELSE Len(threads[u].sent) + TotalSent(u - 1)

\* stream_logs, first statement: the 'Connected to container logs...' event
EmitConnected(u) ==
    /\ At(u, "connect")
    /\ emitted' = Emit(emitted, RoomOf(threads[u]), ConnectedEvent(u))
    /\ threads' = [threads EXCEPT ![u].pc = "open"]
    /\ UNCHANGED <<user_sessions, sessions, active_streams, closed, calls, limits, running>>

\* session['docker_client'].stream_logs_generator(...) and the generator's
\* requests.get / raise_for_status: answered is whether the endpoint answers.
\* A session emptied by disconnect_docker holds no client: AttributeError.
OpenStream(u, answered) ==
    /\ At(u, "open")
    /\ threads' = [threads EXCEPT ![u] =
           IF sessions[threads[u].session].docker_client # None /\ answered
           THEN [@ EXCEPT !.pc = "read"]
           ELSE [@ EXCEPT !.pc = "error", !.failed = TRUE]]
    /\ UNCHANGED <<user_sessions, sessions, active_streams, emitted, closed, calls, limits, running>>

\* iter_content hands over a chunk: stop_event.is_set() -> break, else
\* buffer += chunk
RecvChunk(u, chunk) ==
    /\ At(u, "read")
    /\ chunk \in limits.chunks
    /\ TotalSent(Len(threads)) + Len(chunk) <= limits.bytes
    /\ threads' = [threads EXCEPT ![u] =
           IF @.stop_event
           THEN [@ EXCEPT !.pc = "cleanup", !.sent = @ \o chunk]
           ELSE [@ EXCEPT !.pc = "resume", !.sent = @ \o chunk,
                          !.buffer = AppendChunk(@, chunk)]]
    /\ UNCHANGED <<user_sessions, sessions, active_streams, emitted, closed, calls, limits, running>>

\* the source closes the response: iter_content is exhausted, the generator returns
SourceCloses(u) ==
    /\ At(u, "read")
    /\ threads' = [threads EXCEPT ![u].pc = "cleanup"]
    /\ UNCHANGED <<user_sessions, sessions, active_streams, emitted, closed, calls, limits, running>>

\* the read fails: iter_content raises, the generator re-raises
SourceFails(u) ==
    /\ At(u, "read")
    /\ threads' = [threads EXCEPT ![u].pc = "error", ![u].failed = TRUE]
    /\ UNCHANGED <<user_sessions, sessions, active_streams, emitted, closed, calls, limits, running>>

\* the generator's while loop up to its next yield; when the buffer holds no
\* further line, the second stop_event check and back to the read
ResumeGenerator(u) ==
    /\ At(u, "resume")
    /\ LET r == NextYield(threads[u].buffer) IN
       threads' = [threads EXCEPT ![u] =
           IF r.yield
           THEN [@ EXCEPT !.pc = "check", !.line = r.line, !.buffer = r.buffer]
           ELSE [@ EXCEPT !.pc = IF threads[u].stop_event THEN "cleanup" ELSE "read",
                          !.buffer = r.buffer]]
    /\ UNCHANGED <<user_sessions, sessions, active_streams, emitted, closed, calls, limits, running>>

\* for log_message in ...: if stop_event.is_set(): break
CheckStop(u) ==
    /\ At(u, "check")
    /\ threads' = [threads EXCEPT ![u].pc = IF threads[u].stop_event
                                           THEN "cleanup" ELSE "emit"]
    /\ UNCHANGED <<user_sessions, sessions, active_streams, emitted, closed, calls, limits, running>>

\* if log_message and log_message.strip():
\*     socketio.emit('log', {'message': log_message, 'stream': 'stdout', ...})
EmitLine(u) ==
    /\ At(u, "emit")
    /\ emitted' =
           IF threads[u].line # <<>> /\ LStrip(RStrip(threads[u].line)) # <<>>
           THEN Emit(emitted, RoomOf(threads[u]), LineEvent(u, threads[u].line))
           ELSE emitted
    /\ threads' = [threads EXCEPT ![u].pc = "resume", ![u].line = <<>>]
    /\ UNCHANGED <<user_sessions, sessions, active_streams, closed, calls, limits, running>>

\* except Exception: socketio.emit('error', ...)
EmitError(u) ==
    /\ At(u, "error")
    /\ emitted' = Emit(emitted, RoomOf(threads[u]), StreamErrorEvent(u))
    /\ threads' = [threads EXCEPT ![u].pc = "cleanup"]
    /\ UNCHANGED <<user_sessions, sessions, active_streams, closed, calls, limits, running>>

\* finally: if stream_key in active_streams
CleanupLookup(u) ==
    /\ At(u, "cleanup")
    /\ threads' = [threads EXCEPT ![u].pc =
           IF threads[u].stream_key \in DOMAIN active_streams THEN "del" ELSE "ended"]
    /\ UNCHANGED <<user_sessions, sessions, active_streams, emitted, closed, calls, limits, running>>

\* del active_streams[stream_key], KeyError passed over
CleanupEntry(reg, t) ==
    IF t.stream_key \in DOMAIN reg THEN Without(reg, t.stream_key) ELSE reg

CleanupDelete(u) ==
    /\ At(u, "del")
    /\ active_streams' = CleanupEntry(active_streams, threads[u])
    /\ threads' = [threads EXCEPT ![u].pc = "ended"]
    /\ UNCHANGED <<user_sessions, sessions, emitted, closed, calls, limits, running>>

\* finally: the 'Log stream ended' event; the thread is over
EmitEnded(u) ==
    /\ At(u, "ended")
    /\ emitted' = Emit(emitted, RoomOf(threads[u]), EndedEvent(u))
    /\ threads' = [threads EXCEPT ![u].pc = "done"]
    /\ UNCHANGED <<user_sessions, sessions, active_streams, closed, calls, limits, running>>

\* a step the thread takes by itself
ThreadStep(u) ==
    \/ EmitConnected(u)
    \/ \E answered \in BOOLEAN : OpenStream(u, answered)
    \/ ResumeGenerator(u)
    \/ CheckStop(u)
    \/ EmitLine(u)
    \/ EmitError(u)
    \/ CleanupLookup(u)
    \/ CleanupDelete(u)
    \/ EmitEnded(u)

\* a step of the thread's read that the log source decides
SourceStep(u) ==
    \/ \E chunk \in Chunks : RecvChunk(u, chunk)
    \/ SourceCloses(u)
    \/ SourceFails(u)

\* a request of a viewer is handled
HandlerStep ==
    \E sid \in Sids :
        \/ \E url \in Urls \cup {NoUrl}, reachable \in BOOLEAN :
               connect_docker(sid, url, reachable)
        \/ disconnect_docker(sid)
        \/ \E container_id \in Cids \cup {NoContainer} : start_logs(sid, container_id)
        \/ handle_stop_logs(sid)
        \/ on_disconnect(sid)

\* indices a stream thread may get under any of the specifications
ThreadIds == 1..(MaxStreams + ViewersStreams + KeyStreams + StreamCalls + FairStreams)

Next ==
    \/ HandlerStep
    \/ \E u \in ThreadIds : ThreadStep(u)
    \/ \E u \in ThreadIds : SourceStep(u)

\* every viewer
Spec == Init /\ [][Next]_vars

\* every viewer; the source sends whole lines
ViewersInit ==
    InitWith(LetterSids, ViewersCalls, ViewersStreams, ViewersBytes, {<<97, LF>>})

ViewersSpec == ViewersInit /\ [][Next]_vars

\* one viewer starting streams over and over; the source sends whole lines
KeyInit == InitWith({<<"a">>}, KeyCalls, KeyStreams, KeyBytes, {<<97, LF>>})

KeySpec == KeyInit /\ [][Next]_vars

\* one viewer; the source sends whole lines
RejectInit == InitWith({<<"a">>}, RejectCalls, RejectStreams, RejectBytes, {<<97, LF>>})

RejectSpec == RejectInit /\ [][Next]_vars

\* two viewers, the connection id of one holding a colon; the source sends
\* whole lines
ColonInit ==
    InitWith({<<"a">>, <<"a", ":", "b">>}, ColonCalls, ColonStreams, ColonBytes,
             {<<97, LF>>})

ColonSpec == ColonInit /\ [][Next]_vars

\* one viewer and the bytes of its streams
StreamInit == InitWith({<<"a">>}, StreamCalls, StreamCalls, StreamBytes, Chunks)

StreamSpec == StreamInit /\ [][Next]_vars

\* Threads are scheduled: a thread that can take a step by itself takes it.
\* Nothing makes the log source send, close or fail.
FairInit == InitWith({<<"a">>}, FairCalls, FairStreams, FairBytes, Chunks)

FairSpec ==
    FairInit /\ [][Next]_vars /\ \A u \in 1..FairStreams : WF_vars(ThreadStep(u))


\* ------------------------------------------- one stream, cut in every way

\* the chunks b"abc\ndef", b"ghi\n" put together
ExampleStream == <<97, 98, 99, LF, 100, 101, 102, 103, 104, 105, LF>>

\* b"hello"
Hello == <<104, 101, 108, 108, 111>>

\* n times the byte b
Repeat(b, n) == [i \in 1..n |-> b]

\* bytes of the lines without a header: a letter, a space, the line feed
PlainBytes == {97, 32, LF}

\* values of the 7 header bytes after the tag: zero, the line feed, a letter,
\* a byte that is valid in no UTF-8 sequence
HeaderValues == {0, LF, 104, 255}

\* tag, six bytes fill, one byte last, the payload, a line feed
FramedLine(tag, fill, last, payload) ==
    <<tag>> \o Repeat(fill, HeaderLen - 2) \o <<last>> \o payload \o <<LF>>

\* The byte streams a source sends: the example, every stream of up to
\* DemuxLen plain bytes, a payload behind each header, and lines of up to 9
\* letters behind a first byte that is or is not a tag.
DemuxStreams ==
    {ExampleStream, Hello \o <<LF>>}
    \cup (SeqsUpTo(PlainBytes, DemuxLen) \ {<<>>})
    \cup {FramedLine(tag, fill, last, Hello) :
              tag \in HeaderTags, fill \in HeaderValues, last \in HeaderValues}
    \cup {<<first>> \o Repeat(104, n) \o <<LF>> : first \in HeaderTags \cup {3}, n \in 6..9}

\* every non-empty run of consecutive bytes of stream
Pieces(stream) ==
    {SubSeq(stream, i, j) : i \in 1..Len(stream), j \in 1..Len(stream)} \ {<<>>}

\* The state after viewer a's connect_docker (answered) and start_logs, its
\* stream thread not yet run; the source is going to send one of DemuxStreams.
DemuxInit ==
    \E stream \in DemuxStreams :
        /\ user_sessions = [s \in Sids |-> IF s = <<"a">> THEN 1 ELSE 0]
        /\ sessions = <<[docker_client |-> "u1", docker_url |-> "u1", connected |-> TRUE]>>
        /\ active_streams = With(EmptyDict, StreamKey(<<"a">>, <<"x">>), 1)
        /\ threads = <<NewThread(<<"a">>, <<"x">>, 1)>>
        /\ emitted = [s \in Sids |->
               IF s = <<"a">>
               THEN <<HandlerEvent("docker_connected", "u1"),
                      HandlerEvent("docker_connect_ready", "")>>
               ELSE <<>>]
        /\ closed = {}
        /\ calls = 2
        /\ limits = [viewers |-> {<<"a">>}, calls |-> DemuxCalls, streams |-> 1,
                     bytes |-> Len(stream), chunks |-> Pieces(stream),
                     stream |-> stream]
        /\ running = <<>>

\* iter_content hands over the next n bytes of the stream
RecvCut(u, n) ==
    /\ u \in Threads
    /\ Len(threads[u].sent) + n <= Len(limits.stream)
    /\ RecvChunk(u, SubSeq(limits.stream, Len(threads[u].sent) + 1,
                           Len(threads[u].sent) + n))

\* the thread runs, the source sends the stream in pieces, closes or fails,
\* the viewer stops its logs
DemuxNext ==
    \/ \E u \in ThreadIds : ThreadStep(u)
    \/ \E u \in ThreadIds, n \in 1..Len(ExampleStream) + HeaderLen : RecvCut(u, n)
    \/ \E u \in ThreadIds : SourceCloses(u)
    \/ \E u \in ThreadIds : SourceFails(u)
    \/ \E sid \in Sids : handle_stop_logs(sid)

DemuxSpec == DemuxInit /\ [][DemuxNext]_vars
\* ------------------------------------- handlers, statement by statement
\*
\* Under async_mode='threading' every request is handled in a thread of its
\* own.  Here start_logs, handle_stop_logs and on_disconnect take one step per
\* access of user_sessions / active_streams / a stop_event, so that they
\* interleave with each other and with the stream threads.

Handlers == 1..Len(running)

\* number of handler invocations there may be
HandlerIds == 1..(ConcCalls + StopCalls)

\* start_logs invocations that have not yet got to the thread they launch
Launching ==
    Cardinality({h \in Handlers : /\ running[h].op = "start_logs"
                                  /\ running[h].pc \in {"validate", "lookup", "get",
                                                        "set", "del", "register"}})

\* A handler thread as the server starts it.  key is the argument of the
\* stop_stream call in progress, info what its active_streams.get returned (a
\* thread index, 0: None), keys what stop_user_streams has still to stop.
\* seen (the entries the caller saw before it called stop_stream) and thread
\* (the thread start_logs launched) are history.
NewHandler(op, sid, container_id) ==
    [op |-> op, sid |-> sid, container_id |-> container_id,
     pc |-> IF op = "start_logs" THEN "validate" ELSE "keys",
     session |-> 0, keys |-> {}, key |-> <<>>, info |-> 0,
     seen |-> EmptyDict, thread |-> 0]

\* a request arrives and its handler thread starts; for 'disconnect' the
\* transport connection has gone and no further request of sid arrives
Dispatch(op, sid, container_id) ==
    /\ Handles(sid)
    /\ op = "start_logs" => Len(threads) + Launching < limits.streams
    /\ running' = Append(running, NewHandler(op, sid, container_id))
    /\ closed' = IF op = "disconnect" THEN closed \cup {sid} ELSE closed
    /\ calls' = calls + 1
    /\ UNCHANGED <<user_sessions, sessions, active_streams, threads, emitted, limits>>

Runs(h, where) == h \in Handlers /\ running[h].pc = where

\* start_logs, lines 210-220: get_user_session and the two checks
start_logs_validate(h) ==
    /\ Runs(h, "validate")
    /\ LET r == running[h]
           got == SessionsAfterGet(r.sid)
           session == got[1][got[2][r.sid]]
           rejected == IF r.container_id = NoContainer
                       THEN "No container_id provided"
                       ELSE IF ~session.connected \/ session.docker_client = None
                       THEN "Not connected to Docker"
                       ELSE ""
       IN  /\ sessions' = got[1]
           /\ user_sessions' = got[2]
           /\ emitted' = IF rejected = "" THEN emitted
                         ELSE Emit(emitted, r.sid, HandlerEvent("error", rejected))
           /\ running' = [running EXCEPT ![h] =
                  [@ EXCEPT !.pc = IF rejected = "" THEN "lookup" ELSE "done",
                            !.session = got[2][r.sid]]]
    /\ UNCHANGED <<active_streams, threads, closed, calls, limits>>

\* start_logs, lines 223-227: if stream_key in active_streams: stop_stream(...)
start_logs_lookup(h) ==
    /\ Runs(h, "lookup")
    /\ LET k == StreamKey(running[h].sid, running[h].container_id) IN
       running' = [running EXCEPT ![h] =
           IF k \in DOMAIN active_streams
           THEN [@ EXCEPT !.pc = "get", !.key = k, !.seen = With(EmptyDict, k, active_streams[k])]
           ELSE [@ EXCEPT !.pc = "register", !.key = k]]
    /\ UNCHANGED <<user_sessions, sessions, active_streams, threads, emitted, closed,
                   calls, limits>>

\* stop_user_streams, line 308: the keys of sid in active_streams right now
stop_user_streams_keys(h) ==
    /\ Runs(h, "keys")
    /\ LET keys == UserKeys(active_streams, running[h].sid) IN
       running' = [running EXCEPT ![h] =
           IF keys = {}
           THEN [@ EXCEPT !.pc = IF running[h].op = "stop_logs" THEN "emit" ELSE "forget"]
           ELSE [@ EXCEPT !.pc = "get", !.keys = keys,
                          !.key = CHOOSE k \in keys : TRUE,
                          !.seen = [k \in keys |-> active_streams[k]]]]
    /\ UNCHANGED <<user_sessions, sessions, active_streams, threads, emitted, closed,
                   calls, limits>>

\* the handler r when its stop_stream call has returned: start_logs goes on
\* to launch its thread, stop_user_streams to its next key or back to its caller
AfterStop(r) ==
    IF r.op = "start_logs" THEN [r EXCEPT !.pc = "register"]
    ELSE LET left == r.keys \ {r.key} IN
         IF left = {}
         THEN [r EXCEPT !.pc = IF r.op = "stop_logs" THEN "emit" ELSE "forget",
                        !.keys = {}]
         ELSE [r EXCEPT !.pc = "get", !.keys = left, !.info = 0,
                        !.key = CHOOSE k \in left : TRUE]

\* stop_stream, lines 294-296: info = active_streams.get(stream_key);
\* if not info: return
stop_stream_get(h) ==
    /\ Runs(h, "get")
    /\ running' = [running EXCEPT ![h] =
           IF @.key \in DOMAIN active_streams
           THEN [@ EXCEPT !.pc = "set", !.info = active_streams[running[h].key]]
           ELSE AfterStop([@ EXCEPT !.info = 0])]
    /\ UNCHANGED <<user_sessions, sessions, active_streams, threads, emitted, closed,
                   calls, limits>>

\* a stop_stream that finds no threading.Event to set
stop_stream_set_Nothing(h) ==
    /\ Runs(h, "set")
    /\ running' = [running EXCEPT ![h].pc = "del"]
    /\ UNCHANGED <<user_sessions, sessions, active_streams, threads, emitted, closed,
                   calls, limits>>

\* stop_stream, lines 297-299: ev.set()
stop_stream_set(h) ==
    /\ Runs(h, "set")
    /\ threads' = [threads EXCEPT ![running[h].info].stop_event = TRUE]
    /\ running' = [running EXCEPT ![h].pc = "del"]
    /\ UNCHANGED <<user_sessions, sessions, active_streams, emitted, closed, calls, limits>>

\* stop_stream, lines 301-304: del active_streams[stream_key], KeyError
\* passed over; the call returns
stop_stream_del(h) ==
    /\ Runs(h, "del")
    /\ active_streams' =
           IF running[h].key \in DOMAIN active_streams
           THEN Without(active_streams, running[h].key) ELSE active_streams
    /\ running' = [running EXCEPT ![h] = AfterStop(@)]
    /\ UNCHANGED <<user_sessions, sessions, threads, emitted, closed, calls, limits>>

\* start_logs, lines 229-272: the thread is made, put into active_streams
\* and started
start_logs_register(h) ==
    /\ Runs(h, "register")
    /\ LET r == running[h] IN
       /\ threads' = Append(threads, NewThread(r.sid, r.container_id, r.session))
       /\ active_streams' = With(active_streams, r.key, Len(threads) + 1)
       /\ running' = [running EXCEPT ![h] =
              [@ EXCEPT !.pc = "done", !.thread = Len(threads) + 1]]
    /\ UNCHANGED <<user_sessions, sessions, emitted, closed, calls, limits>>

\* handle_stop_logs, lines 285-289: the 'Disconnected from logs' event
handle_stop_logs_emit(h) ==
    /\ Runs(h, "emit")
    /\ emitted' = Emit(emitted, running[h].sid, DisconnectedEvent(Len(threads)))
    /\ running' = [running EXCEPT ![h].pc = "done"]
    /\ UNCHANGED <<user_sessions, sessions, active_streams, threads, closed, calls, limits>>

\* on_disconnect, lines 322-323: if sid in user_sessions: del user_sessions[sid]
on_disconnect_forget(h) ==
    /\ Runs(h, "forget")
    /\ user_sessions' = [user_sessions EXCEPT ![running[h].sid] = 0]
    /\ running' = [running EXCEPT ![h].pc = "done"]
    /\ UNCHANGED <<sessions, active_streams, threads, emitted, closed, calls, limits>>

\* a statement of a running handler
HandlerRuns(h) ==
    \/ start_logs_validate(h)
    \/ start_logs_lookup(h)
    \/ stop_user_streams_keys(h)
    \/ stop_stream_get(h)
    \/ stop_stream_set(h)
    \/ stop_stream_del(h)
    \/ start_logs_register(h)
    \/ handle_stop_logs_emit(h)
    \/ on_disconnect_forget(h)

\* requests arrive at any time; connect_docker is handled at once
ConcNext ==
    \/ \E sid \in Sids, url \in Urls \cup {NoUrl}, reachable \in BOOLEAN :
           connect_docker(sid, url, reachable)
    \/ \E sid \in Sids, container_id \in Cids \cup {NoContainer} :
           Dispatch("start_logs", sid, container_id)
    \/ \E sid \in Sids, op \in {"stop_logs", "disconnect"} :
           Dispatch(op, sid, NoContainer)
    \/ \E h \in HandlerIds : HandlerRuns(h)
    \/ \E u \in ThreadIds : ThreadStep(u)
    \/ \E u \in ThreadIds : SourceStep(u)

\* one viewer whose requests are handled concurrently; the source sends whole lines
ConcInit == InitWith({<<"a">>}, ConcCalls, ConcStreams, ConcBytes, {<<97, LF>>})

ConcSpec == ConcInit /\ [][ConcNext]_vars

\* The state after viewer a's connect_docker (answered) and start_logs, its
\* stream thread not yet run.
StopInit ==
    /\ user_sessions = [s \in Sids |-> IF s = <<"a">> THEN 1 ELSE 0]
    /\ sessions = <<[docker_client |-> "u1", docker_url |-> "u1", connected |-> TRUE]>>
    /\ active_streams = With(EmptyDict, StreamKey(<<"a">>, <<"x">>), 1)
    /\ threads = <<NewThread(<<"a">>, <<"x">>, 1)>>
    /\ emitted = [s \in Sids |->
           IF s = <<"a">>
           THEN <<HandlerEvent("docker_connected", "u1"),
                  HandlerEvent("docker_connect_ready", "")>>
           ELSE <<>>]
    /\ closed = {}
    /\ calls = 2
    /\ limits = [viewers |-> {<<"a">>}, calls |-> StopCalls, streams |-> 1,
                 bytes |-> StopBytes, chunks |-> {<<97, LF>>}]
    /\ running = <<>>

\* stop_logs and disconnect requests arrive and are handled concurrently
\* with each other and with the stream thread
StopNext ==
    \/ \E sid \in Sids, op \in {"stop_logs", "disconnect"} :
           Dispatch(op, sid, NoContainer)
    \/ \E h \in HandlerIds :
           \/ stop_user_streams_keys(h)
           \/ stop_stream_get(h)
           \/ stop_stream_set(h)
           \/ stop_stream_del(h)
           \/ handle_stop_logs_emit(h)
           \/ on_disconnect_forget(h)
    \/ \E u \in ThreadIds : ThreadStep(u)
    \/ \E u \in ThreadIds : SourceStep(u)

StopSpec == StopInit /\ [][StopNext]_vars

\* ------------------------------------------------------------- vocabulary

\* the positions of stream_logs before its except / finally
StreamingPcs == {"connect", "open", "read", "resume", "check", "emit"}

\* thread u is an active stream unit: launched, not cancelled, still streaming
Active(u) ==
    u \in Threads /\ ~threads[u].stop_event /\ threads[u].pc \in StreamingPcs

\* every launched thread is either streaming un-cancelled or over
Settled == \A u \in Threads : Active(u) \/ threads[u].pc = "done"

\* the events thread u emitted to the viewer that started it
EventsFrom(u) == SelectSeq(emitted[threads[u].sid], LAMBDA e : e.src = u)

\* the texts of the log lines among events ev
RECURSIVE LineTexts(_)
LineTexts(ev) ==
    IF ev = <<>> THEN <<>>
    ELSE (IF ev[1].stream = "stdout" THEN <<ev[1].text>> ELSE <<>>)
             \o LineTexts(Tail(ev))

\* The lines of a byte stream taken as a whole: cut at every line feed, each
\* complete line cleaned, the empty ones left out.
RECURSIVE SourceLines(_)
SourceLines(bytes) ==
    LET i == IndexOfLF(bytes, 1) IN
    IF i = 0 THEN <<>>
    ELSE LET cleaned == CleanLine(SubSeq(bytes, 1, i - 1))
         IN  (IF cleaned = <<>> THEN <<>> ELSE <<cleaned>>)
                 \o SourceLines(SubSeq(bytes, i + 1, Len(bytes)))

\* thread u takes a step
Steps(u) == u \in Threads /\ threads'[u].pc # threads[u].pc

\* ------------------------------------------------------------------ claims

\* C1: in a settled state (every launched thread is streaming un-cancelled or
\* has terminated) at most one stream unit per stream key is active.
C1_AtMostOneActivePerKey ==
    Settled =>
        \A u, v \in Threads :
            (Active(u) /\ Active(v) /\ threads[u].stream_key = threads[v].stream_key)
                => u = v

\* C2: no log line of a stopped stream is emitted to the viewer after the
\* 'Connected to container logs...' event of a later stream of the same key.
C2_NoSupersededLineAfterConnected ==
    \A s \in Sids : \A i, j \in 1..Len(emitted[s]) :
        LET new == emitted[s][i]
            old == emitted[s][j]
        IN  ~ /\ i < j
              /\ new.src # 0 /\ new = ConnectedEvent(new.src)
              /\ old.stream = "stdout"
              /\ old.src < new.src
              /\ threads[old.src].stream_key = threads[new.src].stream_key
              /\ threads[old.src].stop_event

\* C3: on_disconnect of a viewer sets the stop_event of every active stream
\* unit of that viewer and leaves active_streams without an entry of that viewer.
C3_TeardownCancelsAll ==
    [][\A s \in Sids :
           (s \notin closed /\ s \in closed') =>
               /\ \A u \in Threads :
                      (threads[u].sid = s /\ Active(u)) => threads'[u].stop_event
               /\ \A k \in DOMAIN active_streams' :
                      threads'[active_streams'[k]].sid # s]_vars

\* C4: after the 'Disconnected from logs' event of stop_logs, no log line of a
\* stream the viewer had started before it is emitted to that viewer.
C4_NoLineAfterDisconnected ==
    \A s \in Sids : \A i, j \in 1..Len(emitted[s]) :
        LET stop == emitted[s][i]
            line == emitted[s][j]
        IN  ~ /\ i < j
              /\ stop = DisconnectedEvent(stop.upto)
              /\ line.stream = "stdout"
              /\ line.src <= stop.upto
              /\ threads[line.src].sid = s

\* C5: a stream thread whose stop_event is set eventually terminates, having
\* emitted 'Log stream ended', also when the source sends nothing more.
C5_StoppedThreadTerminates ==
    \A u \in 1..FairStreams :
        (u \in Threads /\ threads[u].stop_event)
            ~> (u \in Threads /\ threads[u].pc = "done"
                  /\ EventsFrom(u)[Len(EventsFrom(u))] = EndedEvent(u))

\* C6: the cleanup of a terminating thread leaves every registry entry of
\* another thread in active_streams.
C6_CleanupRemovesOwnEntryOnly ==
    [][\A u \in Threads :
           Steps(u) =>
               \A k \in DOMAIN active_streams :
                   active_streams[k] # u =>
                       k \in DOMAIN active_streams' /\ active_streams'[k] = active_streams[k]]_vars

\* C7: the events of one stream are the 'Connected' event, once and first,
\* then the lines of the source's byte stream in source order, none twice and
\* none skipped, whatever the chunks were; a thread waiting for the next chunk
\* has emitted every complete line sent so far.
C7_LinesInSourceOrder ==
    \A u \in Threads :
        LET ev == EventsFrom(u)
            lines == LineTexts(ev)
        IN  /\ ev # <<>> => ev[1] = ConnectedEvent(u)
            /\ \A i \in 2..Len(ev) : ev[i] # ConnectedEvent(u)
            /\ IsPrefix(lines, SourceLines(threads[u].sent))
            /\ threads[u].pc = "read" => lines = SourceLines(threads[u].sent)

\* C7 witness: a stream has emitted the line "a" and then the line "aa", which
\* with its line feed is longer than a chunk.
C7_Witness ==
    \E u \in Threads : LineTexts(EventsFrom(u)) = <<<<97>>, <<97, 97>>>>

\* C8, first part: a terminated thread has emitted 'Log stream ended' exactly
\* once, as its last event, right after an 'error' event when it failed.
C8_Terminated ==
    \A u \in Threads :
        threads[u].pc = "done" =>
            LET ev == EventsFrom(u) IN
            /\ ev # <<>> /\ ev[Len(ev)] = EndedEvent(u)
            /\ \A i \in 1..(Len(ev) - 1) : ev[i] # EndedEvent(u)
            /\ threads[u].failed =>
                   Len(ev) >= 2 /\ ev[Len(ev) - 1] = StreamErrorEvent(u)

\* C8, second part: no step of a failed thread cancels, terminates or
\* unregisters another stream.
C8_FailureIsLocal ==
    \A u \in Threads :
        (Steps(u) /\ threads'[u].failed) =>
            /\ \A v \in Threads \ {u} : threads'[v] = threads[v]
            /\ \A k \in DOMAIN active_streams :
                   active_streams[k] # u =>
                       k \in DOMAIN active_streams' /\ active_streams'[k] = active_streams[k]

\* C8, both parts: after every step C8_Terminated holds, and the step, when a
\* failed thread takes it, leaves every other stream as it was.
C8_EndedAlwaysFailureLocal == [][C8_Terminated' /\ C8_FailureIsLocal]_vars

\* C9: every event a stream thread emitted is in the room of the viewer whose
\* start_logs launched the thread, and in no other room.
C9_ViewerIsolation ==
    \A s \in Sids : \A i \in 1..Len(emitted[s]) :
        emitted[s][i].src # 0 => threads[emitted[s][i].src].sid = s

\* C9 witness: a viewer has received a log line of its stream while another
\* viewer has received events of its own.
C9_Witness ==
    \E u \in Threads, s \in Sids :
        /\ threads[u].sid # s
        /\ \E i \in 1..Len(EventsFrom(u)) : EventsFrom(u)[i].stream = "stdout"
        /\ emitted[s] # <<>>

\* C10: when connect_docker's probe fails, the viewer's session is
\* unconfigured after the handler: not connected, no docker_client, no docker_url.
C10_FailedProbeUnconfigures ==
    [][\A s \in Sids :
           emitted'[s] = emitted[s] \o
               <<HandlerEvent("error",
                     "Docker connection failed: Failed to connect to Docker API"),
                 HandlerEvent("docker_connect_ready", "")>>
           => /\ user_sessions'[s] # 0
              /\ sessions'[user_sessions'[s]] = NewSession]_vars

\* the events the step appended to the room of sid
Appended(sid) == SubSeq(emitted'[sid], Len(emitted[sid]) + 1, Len(emitted'[sid]))

\* C11: every connect_docker request emits to the requesting viewer exactly
\* one of 'docker_connected' (the url is there and the probe got an answer) or
\* 'error' (otherwise), then 'docker_connect_ready', and nothing else; no
\* other room gets an event.
C11_ConnectReplies ==
    [][\A sid \in Sids, url \in Urls \cup {NoUrl}, reachable \in BOOLEAN :
           connect_docker(sid, url, reachable) =>
               /\ IsPrefix(emitted[sid], emitted'[sid])
               /\ Len(Appended(sid)) = 2
               /\ Appended(sid)[1].event =
                      (IF url # NoUrl /\ reachable THEN "docker_connected" ELSE "error")
               /\ Appended(sid)[2].event = "docker_connect_ready"
               /\ \A other \in Sids \ {sid} : emitted'[other] = emitted[other]]_vars

\* C11 witness: a viewer whose first connect_docker failed and whose second
\* succeeded has received error, ready, docker_connected, ready.
C11_Witness ==
    \E sid \in Sids :
        /\ Len(emitted[sid]) = 4
        /\ emitted[sid][1].event = "error"
        /\ emitted[sid][2].event = "docker_connect_ready"
        /\ emitted[sid][3].event = "docker_connected"
        /\ emitted[sid][4].event = "docker_connect_ready"

\* C12: whatever the cuts, a thread that is not cancelled and waits at the
\* read has emitted the lines of the bytes sent so far taken as one piece, and
\* holds back the bytes behind their last line feed; once b"abc\ndefghi\n"
\* has been sent the lines are "abc", "defghi".
C12_SameLinesForEveryCut ==
    \A u \in Threads :
        (threads[u].pc = "read" /\ ~threads[u].stop_event) =>
            LET sent == threads[u].sent
                lines == LineTexts(EventsFrom(u))
            IN  /\ sent = SubSeq(limits.stream, 1, Len(sent))
                /\ lines = SourceLines(sent)
                /\ \A i \in 1..Len(threads[u].buffer) : threads[u].buffer[i] # LF
                /\ sent = ExampleStream =>
                       lines = << <<97, 98, 99>>, <<100, 101, 102, 103, 104, 105>> >>

\* C12 witness: the example stream has been sent, in some pieces, and its two
\* lines are with the viewer.
C12_Witness ==
    \E u \in Threads :
        /\ threads[u].pc = "read"
        /\ threads[u].sent = ExampleStream
        /\ LineTexts(EventsFrom(u)) = << <<97, 98, 99>>, <<100, 101, 102, 103, 104, 105>> >>

\* s is text: letters only
IsText(s) == \A i \in 1..Len(s) : s[i] \in 97..122

\* the one line, if any
OneLine(text) == IF text = <<>> THEN <<>> ELSE <<text>>

\* C13: once a stream of one line has been sent, the line feed included, the
\* viewer has got: for a line of a tag byte, 7 further bytes of any value and
\* a payload text (which covers a line of real text behind a tag byte), the
\* payload; for a line of text without header bytes, the line.
C13_HeaderStripped ==
    \A u \in Threads :
        (/\ threads[u].pc = "read" /\ ~threads[u].stop_event
         /\ threads[u].sent = limits.stream
         /\ limits.stream[Len(limits.stream)] = LF) =>
            LET line == SubSeq(limits.stream, 1, Len(limits.stream) - 1)
                payload == SubSeq(line, HeaderLen + 1, Len(line))
                lines == LineTexts(EventsFrom(u))
            IN  /\ (Len(line) >= HeaderLen /\ line[1] \in HeaderTags /\ IsText(payload))
                       => lines = OneLine(payload)
                /\ IsText(line) => lines = OneLine(line)

\* C13 for the lines whose 7 header bytes hold no line feed
C13_HeaderWithoutLF ==
    \A u \in Threads :
        (/\ threads[u].pc = "read" /\ ~threads[u].stop_event
         /\ threads[u].sent = limits.stream
         /\ limits.stream[Len(limits.stream)] = LF) =>
            LET line == SubSeq(limits.stream, 1, Len(limits.stream) - 1)
                payload == SubSeq(line, HeaderLen + 1, Len(line))
                lines == LineTexts(EventsFrom(u))
            IN  /\ (/\ Len(line) >= HeaderLen /\ line[1] \in HeaderTags /\ IsText(payload)
                    /\ \A i \in 2..HeaderLen : line[i] # LF)
                       => lines = OneLine(payload)
                /\ IsText(line) => lines = OneLine(line)

\* every stream key of the viewers and containers of the model
StreamKeys == {StreamKey(sid, container_id) : sid \in Sids, container_id \in Cids}

\* In the current state stop_stream on an absent key changes nothing, and
\* stop_stream twice in a row leaves what stop_stream once leaves.
StopStreamIdempotent ==
    \A k \in StreamKeys :
        LET once == StopStream(active_streams, threads, k)
            twice == StopStream(once[1], once[2], k)
        IN  /\ twice = once
            /\ k \notin DOMAIN active_streams => once = <<active_streams, threads>>

\* the stop_stream call of handler h returns in this step
Returns(h) ==
    /\ h \in Handlers
    /\ running'[h] # running[h]
    /\ \/ running[h].pc = "get" /\ running'[h].pc # "set"
       \/ running[h].pc = "del"

\* C14 as stated: stop_stream is idempotent, and a stop_stream call for a key
\* whose thread (the one the caller saw registered) is in or past its finally
\* block returns with the key absent and the thread's stop_event set.
C14_StopEndsAbsentAndSet ==
    [][/\ StopStreamIdempotent
       /\ \A h \in HandlerIds :
              LET k == running[h].key
                  u == running[h].seen[k]
              IN  (Returns(h) /\ threads[u].pc \notin StreamingPcs) =>
                      /\ k \notin DOMAIN active_streams'
                      /\ threads'[u].stop_event]_vars

\* C14 amended: stop_stream is idempotent, and every stop_stream call returns
\* with the key absent; when its lookup found an entry, the stop_event of the
\* thread found is set; when it found none, the call has changed nothing.
C14_StopIdempotentSafe ==
    [][/\ StopStreamIdempotent
       /\ \A h \in HandlerIds :
              Returns(h) =>
                  /\ running[h].key \notin DOMAIN active_streams'
                  /\ running[h].pc = "del" => threads'[running[h].info].stop_event
                  /\ running[h].pc = "get" =>
                         /\ threads' = threads
                         /\ active_streams' = active_streams]_vars

\* C14 witness: a stop_stream call has set the stop_event of a thread and
\* removed its entry after the thread's finally block had found the entry and
\* before the thread deletes it (the KeyError that is passed over).
C14_Witness ==
    \E h \in Handlers, u \in Threads :
        /\ running[h].info = u
        /\ running[h].pc \notin {"get", "set", "del"}
        /\ threads[u].pc = "del"
        /\ threads[u].stop_event
        /\ threads[u].stream_key \notin DOMAIN active_streams

\* a handler that calls stop_user_streams(sid) runs
StopsUserStreams(sid) ==
    handle_stop_logs(sid) \/ on_disconnect(sid) \/ disconnect_docker(sid)

\* C15: a handler step that runs stop_user_streams(sid) leaves every registry
\* entry of a stream another viewer started in active_streams, and leaves the
\* stop_event of that stream as it was.
C15_StopsOnlyOwnStreams ==
    [][\A sid \in Sids :
           StopsUserStreams(sid) =>
               \A k \in DOMAIN active_streams :
                   threads[active_streams[k]].sid # sid =>
                       /\ k \in DOMAIN active_streams'
                       /\ active_streams'[k] = active_streams[k]
                       /\ threads'[active_streams[k]].stop_event
                              = threads[active_streams[k]].stop_event]_vars

\* every handler invocation run statement by statement is a start_logs that
\* has returned
OnlyStartsAndAllReturned ==
    \A h \in Handlers : running[h].op = "start_logs" /\ running[h].pc = "done"

\* C16: when start_logs handlers have run, concurrently or not, and have all
\* returned, and none of the threads launched for a key has got to its finally
\* block yet, exactly one of these threads is registered under the key and
\* every other one has its stop_event set.
C16_SupersessionAtomic ==
    OnlyStartsAndAllReturned =>
        \A k \in StreamKeys :
            LET launched == {u \in Threads : threads[u].stream_key = k} IN
            (launched # {} /\ \A u \in launched : threads[u].pc \in StreamingPcs) =>
                \E w \in launched :
                    /\ k \in DOMAIN active_streams /\ active_streams[k] = w
                    /\ \A u \in launched \ {w} : threads[u].stop_event

\* on_disconnect for sid has completed
Disconnected(sid) ==
    /\ sid \in closed
    /\ \A h \in Handlers :
           (running[h].op = "disconnect" /\ running[h].sid = sid) => running[h].pc = "done"

\* C17: every entry of active_streams is of a thread whose viewer has a
\* session in user_sessions, and a viewer whose on_disconnect has completed
\* has neither a session nor an entry.
C17_SessionOwnsStreams ==
    /\ \A k \in DOMAIN active_streams :
           user_sessions[threads[active_streams[k]].sid] # 0
    /\ \A sid \in Sids :
           Disconnected(sid) =>
               /\ user_sessions[sid] = 0
               /\ \A k \in DOMAIN active_streams : threads[active_streams[k]].sid # sid

\* start_logs(sid, container_id) is to be rejected: no container_id, or the
\* session of sid (a new one if sid has none) is not connected or has no client
Rejects(sid, container_id) ==
    \/ container_id = NoContainer
    \/ user_sessions[sid] = 0
    \/ ~sessions[user_sessions[sid]].connected
    \/ sessions[user_sessions[sid]].docker_client = None

\* C18: a start_logs that is to be rejected emits exactly one 'error' event to
\* its viewer and none to another, launches no thread, and leaves
\* active_streams and every thread as they were.
C18_RejectedStartDoesNothing ==
    [][\A sid \in Sids, container_id \in Cids \cup {NoContainer} :
           (start_logs(sid, container_id) /\ Rejects(sid, container_id)) =>
               /\ IsPrefix(emitted[sid], emitted'[sid])
               /\ Len(Appended(sid)) = 1
               /\ Appended(sid)[1].event = "error"
               /\ \A other \in Sids \ {sid} : emitted'[other] = emitted[other]
               /\ threads' = threads
               /\ active_streams' = active_streams]_vars

\* C18 witness: a viewer with a registered, un-cancelled stream has just been
\* told that its start_logs carried no container_id.
C18_Witness ==
    \E sid \in Sids, u \in Threads :
        /\ Active(u) /\ threads[u].sid = sid
        /\ threads[u].stream_key \in DOMAIN active_streams
        /\ active_streams[threads[u].stream_key] = u
        /\ emitted[sid] # <<>>
        /\ emitted[sid][Len(emitted[sid])] =
               HandlerEvent("error", "No container_id provided")

\* the index of the last line feed in bytes, 0 when there is none
RECURSIVE LastLF(_)
LastLF(bytes) ==
    IF bytes = <<>> \/ bytes[Len(bytes)] = LF THEN Len(bytes)
    ELSE LastLF(SubSeq(bytes, 1, Len(bytes) - 1))

\* the thread is in or past its finally block after a source that closed:
\* not cancelled, no exception
ClosedNormally(u) ==
    /\ threads[u].pc \in {"cleanup", "del", "ended", "done"}
    /\ ~threads[u].stop_event /\ ~threads[u].failed

\* C19: at any time the lines a thread has emitted are among the lines of the
\* bytes sent up to their last line feed, in order, and no more than there
\* are line feeds; after a source that closed they are exactly those lines.
\* The bytes behind the last line feed are in no line.
C19_OnlyCompleteLines ==
    \A u \in Threads :
        LET sent == threads[u].sent
            complete == SubSeq(sent, 1, LastLF(sent))
            lines == LineTexts(EventsFrom(u))
        IN  /\ IsPrefix(lines, SourceLines(complete))
            /\ Len(lines) <= Cardinality({i \in 1..Len(sent) : sent[i] = LF})
            /\ ClosedNormally(u) => lines = SourceLines(complete)

\* C19 witness: the source sent b"a\na" and closed; the thread is over and the
\* viewer has the one line "a".
C19_Witness ==
    \E u \in Threads :
        /\ threads[u].pc = "done" /\ ClosedNormally(u)
        /\ threads[u].sent = <<97, LF, 97>>
        /\ LineTexts(EventsFrom(u)) = << <<97>> >>
====
